---- MODULE Spec2Model ----
(***************************************************************************)
(* Model of the tick orchestrator and action resolver of the section       *)
(* network simulation (src/src/network.rs): Network::new, Network::tick,   *)
(* Network::handle_actions, Network::validate and TickStats.               *)
(*                                                                         *)
(* Prefix, Section and Message live in other files of the repository; the  *)
(* operators that stand for them are written from their contracts.         *)
(***************************************************************************)
EXTENDS Integers, Sequences, FiniteSets, TLC

\* ------------------------------------------------------------------ bounds

\* Longest prefix a section may have; addresses are bit strings of this length.
MaxDepth == 2

\* Most nodes the network holds at once (joins stop there).
MaxNodes == 2

\* Most actions collected in one round.
MaxBatch == 2

\* Most resolving rounds in one tick (sections stay silent afterwards).
MaxRounds == 2

\* Most relocations pending at once over the whole network.
MaxCache == 1

\* The longest prefix of the corrupted maps the resolver is started on
MaxCorruptedDepth == 1

\* params.max_section_size, read by validate.
max_section_size == 1

\* ------------------------------------------------------------------ Prefix

Bit == {0, 1}

RECURSIVE BitStrings(_)
BitStrings(n) ==
    IF n = 0 THEN {<<>>}
    ELSE {Append(s, b) : s \in BitStrings(n - 1), b \in Bit}

\* Addresses (node names, message targets).
Addrs == BitStrings(MaxDepth)

\* Prefix::EMPTY
EMPTY == <<>>

\* a is an initial segment of b
IsInitialSegment(a, b) ==
    /\ Len(a) <= Len(b)
    /\ \A i \in 1..Len(a) : a[i] = b[i]

\* Prefix::matches(name)
matches(prefix, name) == IsInitialSegment(prefix, name)

\* Prefix::is_descendant(other): self is a strict descendant of other
is_descendant(prefix, other) ==
    /\ Len(prefix) > Len(other)
    /\ IsInitialSegment(other, prefix)

\* Prefix::split(): the two children
PrefixSplit(prefix) == <<Append(prefix, 0), Append(prefix, 1)>>

\* The strict ancestors of a prefix
Ancestors(prefix) == {SubSeq(prefix, 1, n) : n \in 0..(Len(prefix) - 1)}

\* ----------------------------------------------------------------- Section

\* Section::new(prefix)
SectionNew(prefix) ==
    [prefix |-> prefix, nodes |-> {}, incoming |-> {}, outgoing |-> {}]

\* Section::merge(params, other): self absorbs other
SectionMerge(self, other) ==
    [prefix   |-> self.prefix,
     nodes    |-> self.nodes \cup other.nodes,
     incoming |-> self.incoming \cup other.incoming,
     outgoing |-> self.outgoing \cup other.outgoing]

\* One half of Section::split(params): the part of self under a child prefix
SectionPart(self, child) ==
    [prefix   |-> child,
     nodes    |-> {n \in self.nodes : matches(child, n)},
     incoming |-> {n \in self.incoming : matches(child, n)},
     outgoing |-> {n \in self.outgoing : matches(child, n)}]

\* Section::split(params): self consumed, two sections at the child prefixes
SectionSplit(self) ==
    <<SectionPart(self, PrefixSplit(self.prefix)[1]),
      SectionPart(self, PrefixSplit(self.prefix)[2])>>

\* Section::receive(message)
SectionReceive(self, message) ==
    IF message.kind = "RelocateCommit"
    THEN [self EXCEPT !.incoming = @ \ {message.target},
                      !.nodes = @ \cup {message.target}]
    ELSE [self EXCEPT !.incoming = @ \cup {message.target}]

\* ------------------------------------------------------------------ Action

Reject == [kind |-> "Reject"]
Merge(target) == [kind |-> "Merge", target |-> target]
Split(source) == [kind |-> "Split", source |-> source]
Send(message) == [kind |-> "Send", message |-> message]

Message(kind, target) == [kind |-> kind, target |-> target]

\* --------------------------------------------------------------- TickStats

\* TickStats::new()
TickStatsNew == [merges |-> 0, splits |-> 0, relocations |-> 0, rejections |-> 0]

\* Mutant of add_assign: the merges of the round overwrite the tick's
add_assign_overwrites(self, other) ==
    [merges      |-> other.merges,
     splits      |-> self.splits + other.splits,
     relocations |-> self.relocations + other.relocations,
     rejections  |-> self.rejections + other.rejections]

\* impl AddAssign for TickStats
add_assign(self, other) ==
    [merges      |-> self.merges + other.merges,
     splits      |-> self.splits + other.splits,
     relocations |-> self.relocations + other.relocations,
     rejections  |-> self.rejections + other.rejections]

\* ----------------------------------------------------------------- HashMap

\* HashMap::insert(key, value)
MapInsert(map, key, value) ==
    [k \in DOMAIN map \cup {key} |-> IF k = key THEN value ELSE map[k]]

\* HashMap::remove(key), for a set of keys
MapRemove(map, keys) == [k \in DOMAIN map \ keys |-> map[k]]

\* ------------------------------------------------- Network::handle_actions

\* The resolver's state while it drains one batch: the section map, the
\* TickStats it will return, and the panic it died of ("none" while it runs).
Resolver(sections_, stats_, fatal_) ==
    [sections |-> sections_, stats |-> stats_, fatal |-> fatal_]

\* Mutant of HandleReject: the rejection is dropped without being counted
HandleRejectUncounted(r) == r

\* Action::Reject
HandleReject(r) ==
    [r EXCEPT !.stats.rejections = @ + 1]

\* Mutant of MergeSources: only the children of the target are looked for
MergeSourcesChildren(map, target) ==
    {prefix \in DOMAIN map : is_descendant(prefix, target)
                              /\ Len(prefix) = Len(target) + 1}

\* Mutant of MergeSources: the target itself counts as one of its descendants
MergeSourcesOrSelf(map, target) ==
    {prefix \in DOMAIN map : IsInitialSegment(target, prefix)}

\* Action::Merge: the mapped prefixes that are descendants of the target
MergeSources(map, target) ==
    {prefix \in DOMAIN map : is_descendant(prefix, target)}

\* Mutant of MergeAll: the last source is removed without being folded
RECURSIVE MergeAllButLast(_, _, _)
MergeAllButLast(section, map, sources) ==
    IF Cardinality(sources) <= 1 THEN section
    ELSE LET source == CHOOSE s \in sources : TRUE
         IN  MergeAllButLast(SectionMerge(section, map[source]), map,
                             sources \ {source})

\* Mutant of MergeAll: each source absorbs what was folded so far, instead of
\* being absorbed
RECURSIVE MergeAllReversed(_, _, _)
MergeAllReversed(section, map, sources) ==
    IF sources = {} THEN section
    ELSE LET source == CHOOSE s \in sources : TRUE
         IN  MergeAllReversed(SectionMerge(map[source], section), map,
                              sources \ {source})

\* Action::Merge: fold the removed sections into the target section
RECURSIVE MergeAll(_, _, _)
MergeAll(section, map, sources) ==
    IF sources = {} THEN section
    ELSE LET source == CHOOSE s \in sources : TRUE
         IN  MergeAll(SectionMerge(section, map[source]), map, sources \ {source})

\* Mutant of MergeCount: one merge is counted for every source folded
MergeCountSources(stats, sources) ==
    [stats EXCEPT !.merges = @ + Cardinality(sources)]

\* Action::Merge: the merges counter after a merge that found sources
MergeCount(stats, sources) ==
    [stats EXCEPT !.merges = @ + 1]

\* Mutant of HandleMerge: the merge is counted before the sources are looked at
HandleMergeCountsFirst(r, target) ==
    LET sources == MergeSources(r.sections, target)
        rest    == MapRemove(r.sections, sources)
        section == IF target \in DOMAIN rest THEN rest[target] ELSE SectionNew(target)
        stats_  == MergeCount(r.stats, sources)
    IN  IF sources = {}
        THEN [r EXCEPT !.stats = stats_]
        ELSE [r EXCEPT !.sections = MapInsert(rest, target,
                                              MergeAll(section, r.sections, sources)),
                       !.stats = stats_]

\* Mutant of HandleMerge: the sources are folded into the target but left in
\* the map
HandleMergeKeepsSources(r, target) ==
    LET sources == MergeSources(r.sections, target)
        section == IF target \in DOMAIN r.sections THEN r.sections[target]
                   ELSE SectionNew(target)
    IN  IF sources = {}
        THEN r
        ELSE [r EXCEPT !.sections = MapInsert(r.sections, target,
                                              MergeAll(section, r.sections, sources)),
                       !.stats = MergeCount(r.stats, sources)]

\* Action::Merge
HandleMerge(r, target) ==
    LET sources == MergeSources(r.sections, target)
        rest    == MapRemove(r.sections, sources)
        section == IF target \in DOMAIN rest THEN rest[target] ELSE SectionNew(target)
    IN  IF sources = {}
        THEN r
        ELSE [r EXCEPT !.sections = MapInsert(rest, target,
                                              MergeAll(section, r.sections, sources)),
                       !.stats = MergeCount(r.stats, sources)]

\* Mutant of SplitCount: a split is counted only when the source was found
SplitCountFound(stats, found) ==
    [stats EXCEPT !.splits = @ + (IF found THEN 1 ELSE 0)]

\* Action::Split: the splits counter, bumped before the source is looked up
SplitCount(stats, found) ==
    [stats EXCEPT !.splits = @ + 1]

\* Mutant of SplitInsert: the second half of the split is never inserted
SplitInsertFirstOnly(map, target0, target1) ==
    IF target0.prefix \in DOMAIN map
    THEN [sections |-> MapInsert(map, target0.prefix, target0), fatal |-> "section_exists"]
    ELSE [sections |-> MapInsert(map, target0.prefix, target0), fatal |-> "none"]

\* Mutant of SplitInsert: the halves are inserted without the assertions, an
\* entry already mapped at a child being overwritten
SplitInsertUnchecked(map, target0, target1) ==
    [sections |-> MapInsert(MapInsert(map, target0.prefix, target0),
                            target1.prefix, target1),
     fatal    |-> "none"]

\* Action::Split: the two inserts, each asserting that the key was free
SplitInsert(map, target0, target1) ==
    LET prefix0 == target0.prefix
        prefix1 == target1.prefix
        map0    == MapInsert(map, prefix0, target0)
    IN  IF prefix0 \in DOMAIN map
        THEN [sections |-> map0, fatal |-> "section_exists"]
        ELSE IF prefix1 \in DOMAIN map0
        THEN [sections |-> MapInsert(map0, prefix1, target1), fatal |-> "section_exists"]
        ELSE [sections |-> MapInsert(map0, prefix1, target1), fatal |-> "none"]

\* Mutant of HandleSplit: the source is read from the map but left in it, so
\* that the halves are inserted next to it
HandleSplitKeepsSource(r, source) ==
    LET found   == source \in DOMAIN r.sections
        stats_  == SplitCount(r.stats, found)
    IN  IF ~found
        THEN [r EXCEPT !.stats = stats_]
        ELSE LET targets == SectionSplit(r.sections[source])
                 done    == SplitInsert(r.sections, targets[1], targets[2])
             IN  Resolver(done.sections, stats_, done.fatal)

\* Action::Split
HandleSplit(r, source) ==
    LET found   == source \in DOMAIN r.sections
        stats_  == SplitCount(r.stats, found)
    IN  IF ~found
        THEN [r EXCEPT !.stats = stats_]
        ELSE LET targets == SectionSplit(r.sections[source])
                 done    == SplitInsert(MapRemove(r.sections, {source}),
                                        targets[1], targets[2])
             IN  Resolver(done.sections, stats_, done.fatal)

\* Action::Send: the keys of the sections whose own prefix matches the target
SendMatches(map, message) ==
    {k \in DOMAIN map : matches(map[k].prefix, message.target)}

\* Mutant of SendCount: every message delivered counts as a relocation
SendCountAll(stats, message) ==
    [stats EXCEPT !.relocations = @ + 1]

\* Action::Send: the relocations counter
SendCount(stats, message) ==
    IF message.kind = "RelocateCommit"
    THEN [stats EXCEPT !.relocations = @ + 1]
    ELSE stats

\* Action::Send, delivered to the section `find` returned (key `found`)
HandleSend(r, message, found) ==
    IF SendMatches(r.sections, message) = {}
    THEN [r EXCEPT !.fatal = "no_section_matching"]
    ELSE [r EXCEPT !.stats = SendCount(r.stats, message),
                   !.sections[found] = SectionReceive(@, message)]

\* What `find` may return for an action: any matching section (the iteration
\* order of the map decides); a placeholder when the action is no Send or
\* nothing matches.
Found(map, action) ==
    IF action.kind = "Send" /\ SendMatches(map, action.message) # {}
    THEN SendMatches(map, action.message)
    ELSE {EMPTY}

\* The body of the for loop: one action resolved
HandleAction(r, action, found) ==
    CASE action.kind = "Reject" -> HandleReject(r)
      [] action.kind = "Merge"  -> HandleMerge(r, action.target)
      [] action.kind = "Split"  -> HandleSplit(r, action.source)
      [] action.kind = "Send"   -> HandleSend(r, action.message, found)

\* handle_actions on a whole batch, stopping at the first panic
RECURSIVE handle_actions(_, _)
handle_actions(r, batch) ==
    IF batch = <<>> \/ r.fatal # "none" THEN r
    ELSE LET action == Head(batch)
             found  == CHOOSE k \in Found(r.sections, action) : TRUE
         IN  handle_actions(HandleAction(r, action, found), Tail(batch))

\* ----------------------------------------------------------- Section::tick

\* The address a relocating node moves to: its name with the first bit flipped
RelocatedName(name) ==
    [i \in 1..Len(name) |-> IF i = 1 THEN 1 - name[i] ELSE name[i]]

\* The outcomes of evaluating one section: the section afterwards and the
\* actions it emits.  `join` says whether the network may still grow and
\* `relocate` whether one more relocation may be pending.
SectionTick(self, join, relocate) ==
    LET prefix == self.prefix
        split  == IF Len(prefix) < MaxDepth THEN {<<Split(prefix)>>} ELSE {}
        merge  == {<<Merge(target)>> : target \in Ancestors(prefix)}
    IN  \* nothing happens
        {[section |-> self, actions |-> <<>>]}
        \cup \* a node joins, and the section may decide to split
        {[section |-> [self EXCEPT !.nodes = @ \cup {name}], actions |-> emitted] :
            name \in {n \in Addrs \ self.nodes : join /\ matches(prefix, n)},
            emitted \in {<<>>} \cup split}
        \cup \* a join is refused
        {[section |-> self, actions |-> <<Reject>>]}
        \cup \* a node leaves, and the section may decide to merge
        {[section |-> [self EXCEPT !.nodes = @ \ {name}], actions |-> emitted] :
            name \in self.nodes \ self.outgoing,
            emitted \in {<<>>} \cup merge}
        \cup \* the section decides to split and to merge in the same evaluation
        {[section |-> self, actions |-> both] :
            both \in {s \o m : s \in split, m \in merge}
                     \cup {m \o s : s \in split, m \in merge}}
        \cup \* a node starts to relocate to its new address
        {[section |-> [self EXCEPT !.outgoing = @ \cup {name}],
          actions |-> <<Send(Message("RelocateRequest", RelocatedName(name)))>>] :
            name \in {n \in self.nodes \ self.outgoing : relocate}}
        \cup \* a relocating node is committed to its new address and leaves
        {[section |-> [self EXCEPT !.outgoing = @ \ {name}, !.nodes = @ \ {name}],
          actions |-> <<Send(Message("RelocateCommit", RelocatedName(name)))>>] :
            name \in self.outgoing}

\* ------------------------------------------------------------------- state

VARIABLES
    sections,     \* Network.sections: prefix -> Section
    recorded,     \* Network.stats: the record calls made in this tick
    pc,           \* where the run is: idle (between ticks), prepare, evaluate,
                  \* resolve, record, validate, or aborted (after a panic)
    todo,         \* the keys the running for loop over the map has yet to visit
    actions,      \* tick's local `actions`
    stats,        \* tick's local `stats`
    round_stats,  \* handle_actions' local `stats`
    fatal,        \* the panic that aborted the run, "none" before
    rounds,       \* the batches resolved so far in this tick
    emitted,      \* this round's evaluations: prefix -> the actions it emitted
    drained,      \* the actions handle_actions has drained in this round
    returned,     \* the TickStats handle_actions returned, call by call, in this tick
    prepared,     \* the keys whose section was prepared in this tick
    validated,    \* the keys whose section was validated in this tick
    oversized     \* the sections validate reported as too large in this tick

vars == <<sections, recorded, pc, todo, actions, stats, round_stats, fatal, rounds,
          emitted, drained, returned, prepared, validated, oversized>>

\* self.sections.values().map(|section| section.nodes().len()).sum()
RECURSIVE TotalNodes(_)
TotalNodes(map) ==
    IF DOMAIN map = {} THEN 0
    ELSE LET key == CHOOSE k \in DOMAIN map : TRUE
         IN  Cardinality(map[key].nodes) + TotalNodes(MapRemove(map, {key}))

\* The relocations pending over the whole map
RECURSIVE TotalPending(_)
TotalPending(map) ==
    IF DOMAIN map = {} THEN 0
    ELSE LET key == CHOOSE k \in DOMAIN map : TRUE
         IN  Cardinality(map[key].incoming) + Cardinality(map[key].outgoing)
             + TotalPending(MapRemove(map, {key}))

\* Network::new
Init ==
    /\ sections = MapInsert(<<>>, EMPTY, SectionNew(EMPTY))
    /\ recorded = <<>>
    /\ pc = "idle"
    /\ todo = {}
    /\ actions = <<>>
    /\ stats = TickStatsNew
    /\ round_stats = TickStatsNew
    /\ fatal = "none"
    /\ rounds = 0
    /\ emitted = <<>>
    /\ drained = <<>>
    /\ returned = <<>>
    /\ prepared = {}
    /\ validated = {}
    /\ oversized = {}

\* ----------------------------------------------------------- Network::tick

\* tick is called: its locals are created and the prepare loop starts
TickBegin ==
    /\ pc = "idle"
    /\ actions' = <<>>
    /\ stats' = TickStatsNew
    /\ pc' = "prepare"
    /\ todo' = DOMAIN sections
    /\ rounds' = 0
    /\ emitted' = <<>>
    /\ drained' = <<>>
    /\ returned' = <<>>
    /\ prepared' = {}
    /\ validated' = {}
    /\ recorded' = <<>>
    /\ oversized' = {}
    /\ UNCHANGED <<sections, round_stats, fatal>>

\* Where tick goes when the prepare loop is over
AfterPrepare == "evaluate"

\* One iteration of the prepare loop
Prepare(key) ==
    /\ pc = "prepare"
    /\ key \in todo
    /\ prepared' = prepared \cup {key}
    /\ todo' = IF todo = {key} THEN DOMAIN sections ELSE todo \ {key}
    /\ pc' = IF todo = {key} THEN AfterPrepare ELSE pc
    /\ UNCHANGED <<sections, recorded, actions, stats, round_stats, fatal, rounds,
                   emitted, drained, returned, validated, oversized>>

\* Mutant of AfterEvaluate: the loop is left after the first round, whatever
\* was collected
AfterEvaluateBreaks(collected) == "record"

\* Where tick goes when a round's evaluation loop is over
AfterEvaluate(collected) ==
    IF collected = <<>> THEN "record" ELSE "resolve"

\* One iteration of the evaluation loop; after the last one the batch is
\* either empty (break) or handed to handle_actions
Evaluate(key) ==
    /\ pc = "evaluate"
    /\ key \in todo
    /\ \E out \in SectionTick(sections[key],
                              TotalNodes(sections) < MaxNodes,
                              TotalPending(sections) < MaxCache) :
        /\ rounds = MaxRounds => out.actions = <<>>
        /\ Len(actions) + Len(out.actions) <= MaxBatch
        /\ sections' = [sections EXCEPT ![key] = out.section]
        /\ actions' = actions \o out.actions
        /\ emitted' = MapInsert(emitted, key, out.actions)
        /\ todo' = todo \ {key}
        /\ pc' = IF todo = {key} THEN AfterEvaluate(actions') ELSE pc
    /\ UNCHANGED <<recorded, stats, round_stats, fatal, rounds, drained, returned,
                   prepared, validated, oversized>>

\* Mutant of Resolve: the batch is taken from its back
ResolveFromBack ==
    /\ pc = "resolve"
    /\ actions # <<>>
    /\ \E found \in Found(sections, actions[Len(actions)]) :
        LET r == HandleAction(Resolver(sections, round_stats, "none"),
                              actions[Len(actions)], found)
        IN  /\ sections' = r.sections
            /\ round_stats' = r.stats
            /\ fatal' = r.fatal
            /\ pc' = IF r.fatal # "none" THEN "aborted" ELSE pc
    /\ actions' = SubSeq(actions, 1, Len(actions) - 1)
    /\ drained' = Append(drained, actions[Len(actions)])
    /\ UNCHANGED <<recorded, todo, stats, rounds, emitted, returned, prepared,
                   validated, oversized>>

\* One iteration of handle_actions' loop: the next action is drained and
\* resolved; a panic aborts the run
Resolve ==
    /\ pc = "resolve"
    /\ actions # <<>>
    /\ \E found \in Found(sections, Head(actions)) :
        LET r == HandleAction(Resolver(sections, round_stats, "none"),
                              Head(actions), found)
        IN  /\ sections' = r.sections
            /\ round_stats' = r.stats
            /\ fatal' = r.fatal
            /\ pc' = IF r.fatal # "none" THEN "aborted" ELSE pc
    /\ actions' = Tail(actions)
    /\ drained' = Append(drained, Head(actions))
    /\ UNCHANGED <<recorded, todo, stats, rounds, emitted, returned, prepared,
                   validated, oversized>>

\* handle_actions returns: its statistics are added to the tick's and the
\* next round starts
Return ==
    /\ pc = "resolve"
    /\ actions = <<>>
    /\ stats' = add_assign(stats, round_stats)
    /\ round_stats' = TickStatsNew
    /\ rounds' = rounds + 1
    /\ emitted' = <<>>
    /\ drained' = <<>>
    /\ returned' = Append(returned, round_stats)
    /\ todo' = DOMAIN sections
    /\ pc' = "evaluate"
    /\ UNCHANGED <<sections, recorded, actions, fatal, prepared, validated,
                   oversized>>

\* Mutant of AfterRecord: tick returns without validating
AfterRecordReturns == "idle"

\* Where tick goes after the record call
AfterRecord == "validate"

\* self.stats.record(...)
Record ==
    /\ pc = "record"
    /\ recorded' = Append(recorded,
                          [total_nodes |-> TotalNodes(sections),
                           sections    |-> Cardinality(DOMAIN sections),
                           merges      |-> stats.merges,
                           splits      |-> stats.splits,
                           relocations |-> stats.relocations,
                           rejections  |-> stats.rejections])
    /\ pc' = AfterRecord
    /\ todo' = DOMAIN sections
    /\ UNCHANGED <<sections, actions, stats, round_stats, fatal, rounds, emitted,
                   drained, returned, prepared, validated, oversized>>

\* --------------------------------------------------------- Network::validate

\* Mutant of ValidatePanic: only the incoming cache is looked at
ValidatePanicIncomingOnly(section) ==
    IF section.incoming # {} THEN "incoming_not_cleared" ELSE "none"

\* The panic, if any, that validate raises for one section
ValidatePanic(section) ==
    IF section.incoming # {} THEN "incoming_not_cleared"
    ELSE IF section.outgoing # {} THEN "outgoing_not_cleared"
    ELSE "none"

\* One iteration of validate's loop; after the last one tick returns
Validate(key) ==
    /\ pc = "validate"
    /\ key \in todo
    /\ oversized' = IF Cardinality(sections[key].nodes) > max_section_size
                    THEN oversized \cup {key} ELSE oversized
    /\ fatal' = ValidatePanic(sections[key])
    /\ validated' = validated \cup {key}
    /\ todo' = todo \ {key}
    /\ pc' = IF fatal' # "none" THEN "aborted"
             ELSE IF todo = {key} THEN "idle" ELSE pc
    /\ UNCHANGED <<sections, recorded, actions, stats, round_stats, rounds, emitted,
                   drained, returned, prepared>>

Next ==
    \/ TickBegin
    \/ \E key \in DOMAIN sections : Prepare(key)
    \/ \E key \in DOMAIN sections : Evaluate(key)
    \/ Resolve
    \/ Return
    \/ Record
    \/ \E key \in DOMAIN sections : Validate(key)

Spec == Init /\ [][Next]_vars

\* ------------------------------------------- the resolver on a corrupted map

\* The prefixes a corrupted map starts with: the root and the prefixes of
\* zeros below it (the prefixes of ones give the mirror image of the same runs)
CorruptedPrefixes == {[i \in 1..n |-> 0] : n \in 0..MaxCorruptedDepth}

\* The sets of at most two such prefixes that are no partition of the address
\* space: some address is matched by no prefix of the set, or by two.  These
\* are the maps the assertions of Split and the panic of Send guard against.
CorruptedKeys ==
    {keys \in SUBSET CorruptedPrefixes :
        /\ Cardinality(keys) \in 1..2
        /\ \E name \in Addrs :
              Cardinality({prefix \in keys : matches(prefix, name)}) # 1}

\* A network whose section map is corrupted, its sections empty
InitCorrupted ==
    /\ \E keys \in CorruptedKeys :
          sections = [prefix \in keys |-> SectionNew(prefix)]
    /\ recorded = <<>>
    /\ pc = "idle"
    /\ todo = {}
    /\ actions = <<>>
    /\ stats = TickStatsNew
    /\ round_stats = TickStatsNew
    /\ fatal = "none"
    /\ rounds = 0
    /\ emitted = <<>>
    /\ drained = <<>>
    /\ returned = <<>>
    /\ prepared = {}
    /\ validated = {}
    /\ oversized = {}

\* The same program, run on a corrupted map
SpecCorrupted == InitCorrupted /\ [][Next]_vars

\* ----------------------------------------------------- common definitions

\* The mapped prefixes that match an address
Owners(map, name) == {k \in DOMAIN map : matches(k, name)}

\* A tick has run to its end and returned
TickCompleted == pc = "idle" /\ recorded # <<>>

\* The sections that emitted something in this round
Emitters == {k \in DOMAIN emitted : emitted[k] # <<>>}

\* Every order in which the sections of a set can be visited
Orders(set) ==
    {order \in [1..Cardinality(set) -> set] :
        \A i, j \in 1..Cardinality(set) : order[i] = order[j] => i = j}

\* The batch collected when the emitting sections are evaluated in an order
RECURSIVE Batch(_)
Batch(order) ==
    IF order = <<>> THEN <<>> ELSE emitted[Head(order)] \o Batch(Tail(order))

\* The whole round has been evaluated and nothing of its batch is resolved yet
BatchStart ==
    /\ pc = "resolve"
    /\ drained = <<>>

\* handle_actions has resolved the whole batch and is about to return
BatchEnd ==
    /\ pc = "resolve"
    /\ actions = <<>>

\* The outcome of handle_actions for the batch of one evaluation order,
\* started from the current map
Outcome(order) ==
    handle_actions(Resolver(sections, TickStatsNew, "none"), Batch(order))

\* The kinds of action in a batch
Kinds(batch) == {batch[i].kind : i \in 1..Len(batch)}

\* The targets of the Merge actions of a batch
MergeTargets(batch) ==
    {batch[i].target : i \in {n \in 1..Len(batch) : batch[n].kind = "Merge"}}

\* ----------------------------------------------------------------- claims

\* C1: after every tick that completes, the keys of the section map are an
\* exact partition of the address space: every address is matched by exactly
\* one mapped prefix.
C1_PartitionAfterTick ==
    TickCompleted => \A name \in Addrs : Cardinality(Owners(sections, name)) = 1

\* C1 witness: a tick that both split and merged sections has completed with
\* the map at its deepest.
C1_Witness ==
    /\ TickCompleted
    /\ recorded[1].merges >= 1
    /\ recorded[1].splits >= 1
    /\ Cardinality(DOMAIN sections) >= 3

\* C2: whatever the order in which the emitting sections of a round are
\* evaluated, resolving the batch of Split and Merge actions they emit leaves
\* the same set of mapped prefixes.
C2_MapPermutationInvariant ==
    (BatchStart /\ Kinds(actions) \subseteq {"Split", "Merge"}) =>
        \A order \in Orders(Emitters) :
            /\ Outcome(order).fatal = "none"
            /\ DOMAIN Outcome(order).sections
                 = DOMAIN handle_actions(Resolver(sections, TickStatsNew, "none"),
                                        actions).sections

\* C2 witness: two sections emitted, one a Split of itself and the other a
\* Merge into an ancestor of both, so that the two orders take different
\* paths (the Split finds its source, or finds it already merged away).
C2_Witness ==
    /\ BatchStart
    /\ Cardinality(Emitters) = 2
    /\ \E a, b \in Emitters :
        /\ emitted[a] = <<Split(a)>>
        /\ \E target \in Ancestors(a) \cap Ancestors(b) : emitted[b] = <<Merge(target)>>

\* C3 as claimed: whatever the order in which the emitting sections are
\* evaluated, resolving the batch returns the same four counters.
C3_CountersPermutationInvariant ==
    BatchStart =>
        \A order \in Orders(Emitters) :
            Outcome(order).stats
              = handle_actions(Resolver(sections, TickStatsNew, "none"), actions).stats

\* No Merge target of the batch is a strict ancestor of another one
NoNestedMerges(batch) ==
    \A t, u \in MergeTargets(batch) : ~is_descendant(t, u)

\* C3 as amended: the splits, relocations and rejections counters are the
\* same for every order of the emitting sections, and so is the merges
\* counter when no Merge target of the batch is a strict ancestor of another.
C3_CountersAmended ==
    BatchStart =>
        \A order \in Orders(Emitters) :
            LET got == Outcome(order).stats
                ref == handle_actions(Resolver(sections, TickStatsNew, "none"),
                                     actions).stats
            IN  /\ got.splits = ref.splits
                /\ got.relocations = ref.relocations
                /\ got.rejections = ref.rejections
                /\ NoNestedMerges(actions) => got.merges = ref.merges

\* C3 witness: two sections emitted Merge actions for different, unrelated or
\* equal targets next to a counted action of another kind.
C3_Witness ==
    /\ BatchStart
    /\ Cardinality(Emitters) = 2
    /\ "Merge" \in Kinds(actions)
    /\ Kinds(actions) # {"Merge"}
    /\ NoNestedMerges(actions)

\* handle_actions takes the next action, of the given kind, out of the batch
\* and resolves it
Resolving(kind) ==
    /\ pc = "resolve"
    /\ actions # <<>>
    /\ Head(actions).kind = kind
    /\ drained' = Append(drained, Head(actions))

\* The mapped prefixes that are strict descendants of a prefix
Descendants(map, target) ==
    {k \in DOMAIN map : Len(k) > Len(target) /\ SubSeq(k, 1, Len(target)) = target}

\* C4 as claimed: resolving Split(source) when no section is mapped at source
\* leaves the map unchanged, raises no panic and changes no counter.
C4_AbsentSplitChangesNothing ==
    [][(Resolving("Split") /\ Head(actions).source \notin DOMAIN sections) =>
          /\ sections' = sections
          /\ fatal' = "none"
          /\ round_stats' = round_stats]_vars

\* C5: resolving Merge(target) when no mapped prefix is a strict descendant
\* of target leaves the map and the counters unchanged and raises no panic;
\* and resolving any Merge a second time, right after the first, changes
\* nothing more.
C5_MergeWithoutSourcesIsNoop ==
    [][Resolving("Merge") =>
          LET action == Head(actions)
              after  == Resolver(sections', round_stats', fatal')
          IN  /\ Descendants(sections, action.target) = {} =>
                    /\ sections' = sections
                    /\ round_stats' = round_stats
                    /\ fatal' = "none" /\ pc' = "resolve"
              /\ HandleAction(after, action, EMPTY) = after]_vars

\* C5 witness: a Merge whose target is already mapped, with nothing below it,
\* has just been resolved after an earlier Merge of the same batch folded the
\* sources.
C5_Witness ==
    /\ pc = "resolve"
    /\ Len(drained) = 2
    /\ drained[1].kind = "Merge"
    /\ drained[2] = drained[1]
    /\ drained[2].target \in DOMAIN sections
    /\ Descendants(sections, drained[2].target) = {}
    /\ round_stats.merges = 1

\* C6: resolving Merge(target) when k >= 1 mapped prefixes are strict
\* descendants of target removes all k, leaves a section mapped at target,
\* leaves every other entry as it was, and adds exactly 1 to the merges
\* counter and nothing to the others.
C6_MergeFoldsAllSources ==
    [][(Resolving("Merge") /\ Descendants(sections, Head(actions).target) # {}) =>
          LET target  == Head(actions).target
              sources == Descendants(sections, target)
          IN  /\ DOMAIN sections' = (DOMAIN sections \ sources) \cup {target}
              /\ \A k \in DOMAIN sections \ (sources \cup {target}) :
                    sections'[k] = sections[k]
              /\ round_stats' = [round_stats EXCEPT !.merges = @ + 1]
              /\ fatal' = "none"]_vars

\* C6 witness: a single Merge(root) has folded a map of three sections into
\* one, counted as one merge.
C6_Witness ==
    /\ BatchEnd
    /\ Cardinality(DOMAIN emitted) = 3
    /\ drained = <<Merge(EMPTY)>>
    /\ DOMAIN sections = {EMPTY}
    /\ round_stats.merges = 1

\* The round in which the map is the two children of the root and both
\* sections emit Merge(root) has been resolved
BothChildrenMergedRoot ==
    /\ BatchEnd
    /\ DOMAIN emitted = {<<0>>, <<1>>}
    /\ emitted[<<0>>] = <<Merge(EMPTY)>>
    /\ emitted[<<1>>] = <<Merge(EMPTY)>>

\* C7: when the map is exactly the two children of the root and both emit
\* Merge(root) in the same round, resolving the round leaves a single section
\* at the root and a merges counter of 1.
C7_DuplicateMergeCountedOnce ==
    BothChildrenMergedRoot =>
        /\ DOMAIN sections = {EMPTY}
        /\ round_stats.merges = 1
        /\ fatal = "none"

\* C7 witness: that round has been resolved, both Merge actions drained.
C7_Witness ==
    /\ BothChildrenMergedRoot
    /\ drained = <<Merge(EMPTY), Merge(EMPTY)>>

\* The round in which the single root section emits Split(root) has been
\* resolved
RootSplit ==
    /\ BatchEnd
    /\ DOMAIN emitted = {EMPTY}
    /\ drained = <<Split(EMPTY)>>

\* C8: resolving Split(source) when a section is mapped at source removes
\* that entry and inserts entries at the two children of source, so that the
\* map has one section more and every other entry is as it was; resolving
\* [Split(root)] on the single-root map leaves exactly the two one-bit
\* prefixes with splits = 1, merges = 0 and rejections = 0.
C8_SplitReplacesSourceByChildren ==
    [][/\ (Resolving("Split") /\ Head(actions).source \in DOMAIN sections) =>
            LET source == Head(actions).source
            IN  /\ DOMAIN sections' = (DOMAIN sections \ {source})
                                        \cup {Append(source, 0), Append(source, 1)}
                /\ Cardinality(DOMAIN sections') = Cardinality(DOMAIN sections) + 1
                /\ \A k \in DOMAIN sections \ {source} : sections'[k] = sections[k]
                /\ fatal' = "none"
       /\ RootSplit =>
            /\ DOMAIN sections = {<<0>>, <<1>>}
            /\ round_stats.splits = 1
            /\ round_stats.merges = 0
            /\ round_stats.rejections = 0]_vars

\* C8 witness: a Split of a section below the root has been resolved next to
\* other sections, the map being at its deepest afterwards.
C8_Witness ==
    /\ pc = "resolve"
    /\ drained # <<>>
    /\ drained[Len(drained)].kind = "Split"
    /\ Len(drained[Len(drained)].source) = 1
    /\ PrefixSplit(drained[Len(drained)].source)[1] \in DOMAIN sections
    /\ Cardinality(DOMAIN sections) = 4

\* C9: tick runs its phases in a fixed order.  Every section of the map is
\* prepared before any is evaluated (until the first batch is resolved the
\* prepared sections are those of the map); a batch is resolved only after every section of
\* the map was evaluated; nothing is recorded or validated while the prepare
\* loop or the round loop runs; exactly one record call is made, after the
\* round loop; validation runs only after it, over every section.
C9_PhaseOrder ==
    /\ pc = "prepare" =>
          /\ emitted = <<>> /\ rounds = 0 /\ drained = <<>>
          /\ prepared = DOMAIN sections \ todo
    /\ (emitted # <<>> \/ rounds > 0) =>
          /\ pc # "prepare"
          /\ prepared # {}
          /\ (rounds = 0 /\ drained = <<>>) => prepared = DOMAIN sections
    /\ (pc = "resolve" /\ drained = <<>>) => DOMAIN emitted = DOMAIN sections
    /\ pc \in {"prepare", "evaluate", "resolve", "record"} =>
          recorded = <<>> /\ validated = {}
    /\ recorded # <<>> =>
          /\ Len(recorded) = 1
          /\ pc \in {"validate", "idle", "aborted"}
          /\ actions = <<>> /\ drained = <<>>
    /\ validated # {} => Len(recorded) = 1
    /\ TickCompleted => validated = DOMAIN sections

\* C9 witness: a tick of two resolving rounds has run through all its phases
\* over a map of several sections.
C9_Witness ==
    /\ TickCompleted
    /\ rounds = 2
    /\ Len(recorded) = 1
    /\ Cardinality(validated) >= 2

\* Every section of the map was evaluated in the last round and emitted nothing
Converged ==
    /\ actions = <<>>
    /\ \A k \in DOMAIN sections : k \in DOMAIN emitted /\ emitted[k] = <<>>

\* C10: the round loop exits exactly when a round that evaluated every
\* section of the map collected no action: the evaluation loop is left only
\* with every section evaluated, to the record call if the batch is empty and
\* to handle_actions otherwise; nothing else leads to the record call; and
\* from the record call to the end of the tick the last evaluation of every
\* section of the map emitted nothing and no action is left unresolved.
C10_LoopExitsOnEmptyRound ==
    [][/\ (pc = "evaluate" /\ pc' # "evaluate") =>
            /\ DOMAIN emitted' = DOMAIN sections'
            /\ actions' = <<>> => pc' = "record"
            /\ actions' # <<>> => pc' = "resolve"
       /\ pc' = "record" => (pc = "evaluate" /\ actions' = <<>>)
       /\ (pc \in {"record", "validate"} \/ TickCompleted) => Converged
       /\ pc = "evaluate" => todo # {}]_vars

\* C10 witness: a tick has returned after two resolving rounds and a last,
\* silent round over several sections.
C10_Witness ==
    /\ TickCompleted
    /\ rounds = 2
    /\ Cardinality(DOMAIN emitted) >= 3
    /\ Converged

\* A section whose relocation caches are not both empty
CacheLeft(section) == section.incoming # {} \/ section.outgoing # {}

\* C11: validation aborts the run exactly when some section of the map has a
\* non-empty incoming or outgoing relocation cache: it aborts only at such a
\* section, and returns only when no section has one.  A section over the
\* size limit is reported and, its caches being empty, validation goes on.
C11_ValidateAbortsIffCacheLeft ==
    [][pc = "validate" =>
          /\ pc' \in {"validate", "aborted", "idle"}
          /\ \E key \in todo :
                /\ todo' = todo \ {key}
                /\ pc' = "aborted" <=> CacheLeft(sections[key])
                /\ pc' = "aborted" <=> fatal' # "none"
                /\ key \in oversized' <=>
                      Cardinality(sections[key].nodes) > max_section_size
          /\ (\A key \in DOMAIN sections : ~CacheLeft(sections[key])) =>
                pc' # "aborted"
          /\ pc' = "idle" =>
                /\ validated' = DOMAIN sections
                /\ \A key \in DOMAIN sections : ~CacheLeft(sections[key])]_vars

\* C11 witness: validation has reported a section as too large and aborted
\* the run on a relocation cache that was not cleared.
C11_Witness ==
    /\ pc = "aborted"
    /\ fatal = "outgoing_not_cleared"
    /\ oversized # {}

\* C12: resolving Send(message) delivers the message to exactly one section,
\* one whose prefix matches the target, and to no other; no key is added or
\* removed; the relocations counter goes up by 1 iff the message is a
\* RelocateCommit and no other counter changes; the step is fatal iff no
\* mapped prefix matches the target (as it is once the owners of the target
\* are taken out of the map).
C12_SendDeliversToOneOwner ==
    [][Resolving("Send") =>
          LET message == Head(actions).message
              owners  == Owners(sections, message.target)
              commit  == IF message.kind = "RelocateCommit" THEN 1 ELSE 0
              orphan  == HandleAction(Resolver(MapRemove(sections, owners),
                                               round_stats, "none"),
                                      Head(actions), EMPTY)
          IN  /\ fatal' = "none" <=> owners # {}
              /\ owners # {} =>
                    /\ DOMAIN sections' = DOMAIN sections
                    /\ \E key \in owners :
                          /\ sections'[key] = SectionReceive(sections[key], message)
                          /\ \A other \in DOMAIN sections \ {key} :
                                sections'[other] = sections[other]
                    /\ round_stats' = [round_stats EXCEPT !.relocations = @ + commit]
                    /\ pc' = "resolve"
              /\ orphan.fatal = "no_section_matching"
              /\ orphan.sections = MapRemove(sections, owners)
              /\ orphan.stats = round_stats]_vars

\* C12 witness: a RelocateCommit has just been delivered, in a map of several
\* sections, to the section that owns its target, and counted.
C12_Witness ==
    /\ pc = "resolve"
    /\ drained # <<>>
    /\ drained[Len(drained)].kind = "Send"
    /\ drained[Len(drained)].message.kind = "RelocateCommit"
    /\ Cardinality(DOMAIN sections) >= 2
    /\ \E key \in Owners(sections, drained[Len(drained)].message.target) :
          drained[Len(drained)].message.target \in sections[key].nodes
    /\ round_stats.relocations = 1

\* The sum of a sequence of numbers
RECURSIVE Sum(_)
Sum(seq) == IF seq = <<>> THEN 0 ELSE Head(seq) + Sum(Tail(seq))

\* The nodes of the map, each with the key of its section
NodesByKey == {p \in (DOMAIN sections) \X Addrs : p[2] \in sections[p[1]].nodes}

\* C13: a tick that reaches the record phase makes exactly one record call.
\* The merges, splits, relocations and rejections it records are the sums of
\* the counters handle_actions returned over the rounds of this tick, and of
\* no other tick; the section count is the size of the converged map and the
\* node total is the sum of the node counts of its sections.
C13_RecordIsSumOfRounds ==
    /\ pc = "prepare" => returned = <<>>
    /\ pc \in {"evaluate", "resolve", "record"} => Len(returned) = rounds
    /\ (pc = "validate" \/ TickCompleted) => Len(recorded) = 1
    /\ recorded # <<>> =>
          /\ Len(recorded) = 1
          /\ Len(returned) = rounds
          /\ recorded[1].merges
                = Sum([i \in 1..Len(returned) |-> returned[i].merges])
          /\ recorded[1].splits
                = Sum([i \in 1..Len(returned) |-> returned[i].splits])
          /\ recorded[1].relocations
                = Sum([i \in 1..Len(returned) |-> returned[i].relocations])
          /\ recorded[1].rejections
                = Sum([i \in 1..Len(returned) |-> returned[i].rejections])
          /\ recorded[1].sections = Cardinality(DOMAIN sections)
          /\ recorded[1].total_nodes = Cardinality(NodesByKey)

\* C13 witness: a tick of two resolving rounds, a merge in the first and a
\* split in the second, has recorded its statistics over a populated map and
\* returned.
C13_Witness ==
    /\ TickCompleted
    /\ Len(returned) = 2
    /\ returned[1].merges = 1
    /\ returned[2].merges = 0
    /\ returned[2].splits = 1
    /\ recorded[1].total_nodes >= 1

\* C14: resolving Reject adds exactly 1 to the rejections counter and leaves
\* the section map (its keys and the content of every section) and the
\* merges, splits and relocations counters unchanged; it raises no panic.
C14_RejectOnlyCounts ==
    [][Resolving("Reject") =>
          /\ round_stats'.rejections = round_stats.rejections + 1
          /\ round_stats'.merges = round_stats.merges
          /\ round_stats'.splits = round_stats.splits
          /\ round_stats'.relocations = round_stats.relocations
          /\ sections' = sections
          /\ fatal' = "none" /\ pc' = "resolve"]_vars

\* C14 witness: the second Reject of a batch has just been resolved on a map
\* of several sections.
C14_Witness ==
    /\ pc = "resolve"
    /\ drained = <<Reject, Reject>>
    /\ round_stats.rejections = 2
    /\ Cardinality(DOMAIN sections) >= 2

\* Split(source) is about to be resolved with its source mapped and one of
\* its children already in the map
DuplicateChild ==
    /\ Head(actions).source \in DOMAIN sections
    /\ \E child \in {Append(Head(actions).source, 0), Append(Head(actions).source, 1)} :
          child \in DOMAIN sections

\* Send(message) is about to be resolved with no mapped prefix matching its
\* target
UnmatchedTarget == Owners(sections, Head(actions).message.target) = {}

\* C16: on a map that is no partition, a duplicate child prefix on Split and
\* an unmatched Send target stop the run at that action: what is left of the
\* batch is never resolved, no further round is evaluated, nothing is
\* recorded for the tick and validation does not run.  Nothing else stops
\* the resolver: a Merge without descendants and a Split of an absent source
\* let the run go on.
C16_FatalStopsRun ==
    [][/\ pc = "aborted" => FALSE
       /\ ((Resolving("Split") /\ DuplicateChild)
            \/ (Resolving("Send") /\ UnmatchedTarget)) =>
              /\ pc' = "aborted" /\ fatal' # "none"
              /\ actions' = Tail(actions)
              /\ rounds' = rounds /\ stats' = stats /\ returned' = returned
              /\ recorded' = <<>> /\ validated' = {}
       /\ ((Resolving("Merge") /\ Descendants(sections, Head(actions).target) = {})
            \/ (Resolving("Split") /\ Head(actions).source \notin DOMAIN sections)) =>
              /\ pc' = "resolve" /\ fatal' = "none"
       /\ (pc = "resolve" /\ pc' = "aborted") =>
              \/ Resolving("Split") /\ DuplicateChild
              \/ Resolving("Send") /\ UnmatchedTarget]_vars

\* C16 witness: the run has stopped on a Split that found a child of its
\* source in the map, another action of the batch still unresolved, nothing
\* recorded and nothing validated.
C16_Witness ==
    /\ pc = "aborted"
    /\ fatal = "section_exists"
    /\ actions # <<>>
    /\ drained[Len(drained)].kind = "Split"
    /\ recorded = <<>>
    /\ validated = {}

\* What the sections emitted in this round is of the forms a section may
\* emit: Split of its own prefix, Merge of a strict ancestor, Send, Reject
OwnEmissions ==
    \A key \in DOMAIN emitted :
        \A i \in 1..Len(emitted[key]) :
            LET action == emitted[key][i]
            IN  /\ action.kind = "Split" => action.source = key
                /\ action.kind = "Merge" => IsInitialSegment(action.target, key)
                                             /\ action.target # key

\* C17: from the single-root map, through rounds in which sections emit only
\* Split(own prefix), Merge(strict ancestor of own prefix), Send or Reject,
\* the resolver never panics: a Split about to be resolved never finds a
\* child of its source in the map and a Send about to be resolved always
\* finds a section matching its target.
C17_ResolverNeverPanics ==
    /\ OwnEmissions
    /\ fatal \notin {"section_exists", "no_section_matching"}
    /\ (pc = "resolve" /\ actions # <<>>) =>
          /\ Head(actions).kind = "Split" => ~DuplicateChild
          /\ Head(actions).kind = "Send" => ~UnmatchedTarget
          /\ \A found \in Found(sections, Head(actions)) :
                HandleAction(Resolver(sections, round_stats, "none"),
                             Head(actions), found).fatal = "none"

\* C17 witness: a Split and a Send of one batch have both been resolved, in
\* a round after an earlier one, without a panic.
C17_Witness ==
    /\ pc = "resolve"
    /\ rounds >= 1
    /\ Len(drained) = 2
    /\ Kinds(drained) = {"Split", "Send"}
    /\ fatal = "none"

\* The number of nodes held by the sections mapped at a set of keys
NodeCount(map, keys) ==
    Cardinality({p \in keys \X Addrs : p[2] \in map[p[1]].nodes})

\* C18: resolving Merge and Split conserves nodes.  After Split(source) of a
\* mapped source the node counts of the two children sum to the node count
\* the source had; after Merge(target) folding k >= 1 sources the node count
\* of the target is the sum of the node counts of the sources plus that of
\* the section already mapped at target, if any; and no Merge or Split
\* changes the node count of the whole map.
C18_MergeSplitConserveNodes ==
    [][/\ (Resolving("Split") /\ Head(actions).source \in DOMAIN sections) =>
            LET source == Head(actions).source
            IN  NodeCount(sections', {Append(source, 0), Append(source, 1)})
                  = NodeCount(sections, {source})
       /\ (Resolving("Merge") /\ Descendants(sections, Head(actions).target) # {}) =>
            LET target  == Head(actions).target
                sources == Descendants(sections, target)
            IN  NodeCount(sections', {target})
                  = NodeCount(sections, sources)
                    + NodeCount(sections, {target} \cap DOMAIN sections)
       /\ (Resolving("Split") \/ Resolving("Merge")) =>
            NodeCount(sections', DOMAIN sections')
              = NodeCount(sections, DOMAIN sections)]_vars

\* C18 witness: a Merge has just folded two sections that held one node each
\* into the root section, which holds both.
C18_Witness ==
    /\ pc = "resolve"
    /\ drained = <<Merge(EMPTY)>>
    /\ round_stats.merges = 1
    /\ DOMAIN sections = {EMPTY}
    /\ \E a, b \in sections[EMPTY].nodes : a[1] # b[1]

\* C19: handle_actions consumes the whole list and leaves it empty.  While a
\* round is evaluated the list holds what the sections evaluated so far in
\* this round emitted and nothing else; each step of handle_actions takes
\* the first action left, so that the actions are resolved once each, in the
\* order collected; handle_actions returns with the list empty, and the list
\* is empty whenever no round is under way.
C19_BatchConsumedInOrder ==
    [][/\ pc \in {"idle", "prepare", "record", "validate"} =>
            actions = <<>> /\ drained = <<>>
       /\ pc = "evaluate" =>
            /\ drained = <<>>
            /\ \E order \in Orders(Emitters) : actions = Batch(order)
       /\ pc = "resolve" =>
            \E order \in Orders(Emitters) : drained \o actions = Batch(order)
       /\ (pc = "resolve" /\ pc' \in {"resolve", "aborted"}) =>
            /\ actions # <<>>
            /\ drained' = Append(drained, Head(actions))
            /\ actions' = Tail(actions)
            /\ emitted' = emitted
       /\ (pc = "resolve" /\ pc' \notin {"resolve", "aborted"}) =>
            /\ actions = <<>> /\ actions' = <<>>
            /\ pc' = "evaluate" /\ emitted' = <<>> /\ drained' = <<>>]_vars

\* C19 witness: in the second round of a tick, handle_actions has resolved a
\* batch of two different actions emitted by two sections and is about to
\* return, the list empty.
C19_Witness ==
    /\ BatchEnd
    /\ rounds = 1
    /\ Len(drained) = 2
    /\ drained[1] # drained[2]
    /\ Cardinality(Emitters) = 2

\* C20: in every reachable state each entry of the section map is keyed by
\* the prefix its section reports as its own.
C20_KeyIsSectionPrefix ==
    \A key \in DOMAIN sections : sections[key].prefix = key

\* C20 witness: a Split and then a Merge of a higher prefix have been resolved
\* in one batch over a populated map, the merged section being mapped at the
\* target it reports.
C20_Witness ==
    /\ BatchEnd
    /\ Len(drained) = 2
    /\ drained[1].kind = "Split"
    /\ drained[2].kind = "Merge"
    /\ round_stats.merges = 1
    /\ drained[2].target \in DOMAIN sections
    /\ sections[drained[2].target].prefix = drained[2].target
    /\ sections[drained[2].target].nodes # {}

====
